---- MODULE Spec2Model ----
(***************************************************************************)
(* Runtime Monitor Python agent (python-agent/runtime_monitor.py).         *)
(*                                                                         *)
(* The agent's connection lifecycle (the socket handlers connect,          *)
(* disconnect, registered), the call interceptor (_execute_function and    *)
(* _execute_async_function), the manual tracker (track_manual_call), the   *)
(* gate _send_execution_event, the sandboxed executor                      *)
(* (_execute_python_code), the handlers of the hub's commands with the     *)
(* thread emit_monitoring_data, and the serializer (_serialize_value) as   *)
(* state machines.  The socket handlers run on the Event Channel client's  *)
(* thread, the interceptor and the tracker on the application's thread,    *)
(* the sandboxed code on a pool worker.                                    *)
(***************************************************************************)
EXTENDS Integers, Sequences, FiniteSets, TLC

\* ------------------------------------------------------------------ bounds
MaxCalls == 2       \* invocations made by the application thread
MaxConnects == 2    \* connect requests made over the life of the agent
MaxTime == 1        \* largest reading of the clock
MaxExecs == 2       \* execute_python_code commands handled
MaxPrints == 1      \* lines the sandboxed code prints in one execution
MaxNodeData == 1    \* define_workflow_nodes calls that find the gate open
MaxCmds == 2        \* commands the hub sends
MaxTicks == 2       \* rounds of the monitoring thread
MaxLen == 11        \* entries of a list or dict given to the serializer
MaxNotices == 1     \* notices of a refused connect request kept in one stream
MaxOther == 2       \* turns the event loop gives to another task
MaxSignals == 2     \* termination signals delivered to the launcher
MaxActivity == 3    \* calls, commands, executions and connects of the whole agent

\* ------------------------------------------------------------- Python values
Null == "None"

NoneV == [t |-> "none"]
Prim(n) == [t |-> "prim", v |-> n]
Str(n) == [t |-> "str", v |-> n]
ListV(s) == [t |-> "list", items |-> s]
DictV(s) == [t |-> "dict", items |-> s]
\* An object that is neither primitive nor list, tuple or dict.  str_ok: str(value)
\* returns; repr_ok: repr(value) returns (what str() of a container holding it
\* calls); has_len: it has __len__; len_ok: len(value) returns.
ObjV(str_ok, repr_ok, has_len, len_ok) ==
    [t |-> "obj", str_ok |-> str_ok, repr_ok |-> repr_ok, has_len |-> has_len,
     len_ok |-> len_ok]

PlainObj == ObjV(TRUE, TRUE, FALSE, TRUE)
BadStrObj == ObjV(FALSE, TRUE, FALSE, TRUE)
BadReprObj == ObjV(FALSE, FALSE, FALSE, TRUE)
BadLenObj == ObjV(TRUE, TRUE, TRUE, FALSE)

\* The values the monitored functions of the model return and receive.
Values == {Prim(1), BadStrObj}

\* The errors a target raises: ordinary errors (subclasses of Exception), with
\* and without a message, and an interrupt-style error (KeyboardInterrupt, or
\* asyncio.CancelledError, which derive from BaseException only).
Err(cls, name, msg) == [cls |-> cls, name |-> name, msg |-> msg]
ValueErrorBoom == Err("Exception", "ValueError", "boom")
ValueErrorEmpty == Err("Exception", "ValueError", "")
Interrupt == Err("BaseException", "KeyboardInterrupt", "")
StrError == Err("Exception", "RuntimeError", "str failed")
Errors == {ValueErrorBoom, ValueErrorEmpty, Interrupt}

\* The absent error, outcome, timestamp and pending event.
NoError == [cls |-> "None"]
NoOutcome == [k |-> "none"]
NoTime == -1
NoEvent == [ev |-> "none"]
NotCalled == [raised |-> FALSE, val |-> [t |-> "not called"]]

Returned(v) == [k |-> "return", v |-> v]
Raised(e) == [k |-> "raise", e |-> e]

\* ---------------------------------------------------------------- serializer
\* str(value): TRUE when it returns.  str() of a list or dict takes the repr()
\* of what it holds.
RECURSIVE repr_returns(_)
repr_returns(value) ==
    CASE value.t = "obj" -> value.repr_ok
      [] value.t = "list" ->
            \A i \in DOMAIN value.items : repr_returns(value.items[i])
      [] value.t = "dict" ->
            \A i \in DOMAIN value.items : repr_returns(value.items[i][2])
      [] OTHER -> TRUE

str_returns(value) ==
    IF value.t = "obj" THEN value.str_ok ELSE repr_returns(value)

Take10(s) == SubSeq(s, 1, IF Len(s) < 10 THEN Len(s) ELSE 10)

\* _serialize_value: [raised, val].  The branches for the basic types and for
\* lists and tuples return None; the dict branch serializes the first 10 items
\* under their own keys; any other object becomes a descriptor.  An error in the
\* try block is answered by the serialization_error descriptor, whose own
\* str(value) is outside any handler.
RECURSIVE serialize_value(_)
serialize_value(value) ==
    LET fallback ==
            IF str_returns(value)
            THEN [raised |-> FALSE, val |-> [t |-> "serialization_error"]]
            ELSE [raised |-> TRUE, val |-> NoneV]
    IN  CASE value.t \in {"none", "prim", "str"} -> [raised |-> FALSE, val |-> NoneV]
          [] value.t = "list" -> [raised |-> FALSE, val |-> NoneV]
          [] value.t = "dict" ->
                LET items == Take10(value.items)
                    inner == [i \in DOMAIN items |-> serialize_value(items[i][2])]
                IN  IF \E i \in DOMAIN items : inner[i].raised
                    THEN fallback
                    ELSE [raised |-> FALSE,
                          val |-> DictV([i \in DOMAIN items |->
                                            <<items[i][1], inner[i].val>>])]
          [] OTHER ->
                IF str_returns(value) /\ (value.has_len => value.len_ok)
                THEN [raised |-> FALSE, val |-> [t |-> "descriptor"]]
                ELSE fallback

\* _serialize_parameters: TRUE when it raises.  Both the frame-based naming and
\* its fallback call _serialize_value on every positional argument, and the
\* fallback's call is outside any handler.
serialize_parameters_raises(args) ==
    \E i \in DOMAIN args : serialize_value(args[i]).raised

\* The arguments _serialize_value is called with: scalars, objects, and lists
\* and dicts of up to MaxLen entries whose last entry is one of Elems; a dict's
\* keys are strings or integers.
Elems == {Prim(0), PlainObj, BadStrObj, BadReprObj, BadLenObj}

ListOf(n, e) == ListV([i \in 1 .. n |-> IF i = n THEN e ELSE Prim(i)])

DictOf(n, e, keys) ==
    DictV([i \in 1 .. n |->
              <<IF keys = "str" THEN Str(i) ELSE Prim(i),
                IF i = n THEN e ELSE Prim(i)>>])

SerInputs ==
    {NoneV, Str(1)} \cup Elems
        \cup {ListOf(n, e) : n \in 0 .. MaxLen, e \in Elems}
        \cup {DictOf(n, e, "str") : n \in 0 .. MaxLen, e \in Elems}
        \cup {DictOf(n, e, "int") : n \in 0 .. MaxLen, e \in Elems}

\* --------------------------------------------------------------------- state
VARIABLES
    sio_state,      \* the Event Channel client: "down", "connecting" or "up"
    connected,      \* self.connected
    app_id,         \* self.app_id
    hub_app_id,     \* the id the hub has assigned on the current connection
    nConnects,      \* connect requests made so far
    channel,        \* the messages handed to sio.emit, in order
    dropped,        \* the events _send_execution_event printed instead
    calls,          \* per correlation id: the invocation, its target's outcome
                    \* and what its caller observed
    pc,             \* the application thread: "idle", "running" or "tracking"
    pending,        \* the call_exit a track_manual_call in progress will send
    now             \* the last reading of time.time()

agentVars == <<sio_state, connected, app_id, hub_app_id, nConnects, channel,
               dropped, calls, pc, pending, now>>

VARIABLES
    sys_stdout,     \* sys.stdout: 0 is the stream the process started with, k the
                    \* StringIO of the k-th sandboxed execution
    streams,        \* what has been written to each stream
    exPc,           \* _execute_python_code: "idle", "result_wait" (in
                    \* future.result) or "shutdown_wait" (leaving the with block)
    code,           \* the behaviour of the code being executed
    old_stdout,     \* the local old_stdout of the execution
    worker,         \* the pool worker running exec(code, ...)
    results         \* what each _execute_python_code call gave its caller

sandboxVars == <<sys_stdout, streams, exPc, code, old_stdout, worker, results>>

\* The executor's state besides the streams, which every print of the
\* process writes to.
sandboxRest == <<sys_stdout, exPc, code, old_stdout, worker, results>>

VARIABLES
    hPc,            \* _handle_python_execution: "idle" or "executing" (in
                    \* _execute_python_code)
    mon,            \* the thread emit_monitoring_data: "none", "sleeping" (in
                    \* time.sleep), "checked" (past the test of self.connected),
                    \* "stopped" (left the loop) or "crashed" (ended by an error)
    mon_conn,       \* the connect request that was current when the thread started
    nTicks,         \* monitoring_data['callCount']
    nCmds           \* commands the hub has sent

hubVars == <<hPc, mon, mon_conn, nTicks, nCmds>>

VARIABLES
    value,          \* the argument of a _serialize_value call
    serialized      \* what the call gave: its result or its error

serVars == <<value, serialized>>

VARIABLES
    connect_result  \* what the last call of connect_to_hub gave its caller

connectVars == <<connect_result>>

VARIABLES
    lPc,            \* the launcher process (start_agent.py): "main", "init_monitor",
                    \* "connect" (line 40), "running" (the main loop), "stopping",
                    \* "returned" (start has returned to main) or "exited"
    monitor,        \* AgentLauncher.monitor
    running,        \* AgentLauncher.running
    success,        \* what launcher.start() gave main
    exit_code,      \* the status the launcher process exited with
    nSignals        \* termination signals delivered to the launcher

launcherVars == <<lPc, monitor, running, success, exit_code, nSignals>>

VARIABLES
    tState,         \* the coroutine `func(*args, **kwargs)` awaited by each
                    \* invocation of _execute_async_function: "not_started",
                    \* "running", "suspended" (at an await of its own) or
                    \* "completed"
    other_log       \* where the wrapper was each time the event loop ran
                    \* another task

loopVars == <<tState, other_log>>

VARIABLES
    parent          \* for each invocation made from inside a wrapped target,
                    \* the invocation whose target made it (0: made from
                    \* outside any wrapped target)

nestVars == <<parent>>

VARIABLES
    global_agent,   \* the module's _global_agent
    func_name,      \* the argument of the module-level monitor_function
    func,           \* the function under the @monitor_function(...) line
    dPc,            \* the decoration: "start", "made" (monitor_function has
                    \* returned) or "decorated" (its result was applied to func)
    made,           \* what monitor_function(func_name) gave
    decorated       \* what applying it to func gave: the name's binding, or
                    \* the error of the decoration

decoVars == <<global_agent, func_name, func, dPc, made, decorated>>

\* What the actions of one component leave alone.
besidesAgent == <<sandboxRest, hubVars, serVars, connectVars, launcherVars, loopVars, nestVars, decoVars>>
besidesSandbox == <<agentVars, hubVars, serVars, connectVars, launcherVars, loopVars, nestVars, decoVars>>
besidesConnect == <<sandboxRest, hubVars, serVars, launcherVars, loopVars, nestVars, decoVars>>

AppIds == {"app-1"}

Last(s) == s[Len(s)]

\* time.time(): the readings the clock can give next.
Readings == {t \in now .. now + 1 : t <= MaxTime}

\* ------------------------------------------------------------------ messages
ExecEvent(type, id, ts, dur, succ, keys, ret, err) ==
    [ev |-> "execution_data", type |-> type, callId |-> id, timestamp |-> ts,
     duration |-> dur, success |-> succ, keys |-> keys, returnValue |-> ret,
     error |-> err]

call_enter(id, ts) ==
    ExecEvent("call_enter", id, ts, 0, FALSE, {"parameters"}, NoneV, "")

call_exit_ok(id, ts, dur, ret) ==
    ExecEvent("call_exit", id, ts, dur, TRUE, {"returnValue"}, ret, "")

\* A failed call_exit without the trace.
call_exit_error_untraced(id, ts, dur, e) ==
    ExecEvent("call_exit", id, ts, dur, FALSE, {"error"}, NoneV, e.msg)

call_exit_error(id, ts, dur, e) ==
    ExecEvent("call_exit", id, ts, dur, FALSE, {"error", "stackTrace"}, NoneV, e.msg)

\* `self.connected and self.app_id`
gate_open == connected /\ app_id # Null

\* print(text) by a thread of the agent: the text goes to whatever sys.stdout
\* is at that moment.  What is written to the process's original stream
\* (stream 0) leaves the program and is not kept.
print_line(text) ==
    streams' = IF sys_stdout = 0 THEN streams
               ELSE [streams EXCEPT ![sys_stdout] = Append(@, text)]

\* _send_execution_event
send_execution_event(event_data) ==
    IF gate_open
    THEN channel' = Append(channel, event_data) /\ UNCHANGED <<dropped, streams>>
    ELSE /\ dropped' = Append(dropped, event_data)
         /\ print_line("Buffered event (not connected)")
         /\ UNCHANGED channel

\* ----------------------------------------------------- connection lifecycle
\* Python's True and False.
BoolV(b) == [t |-> "bool", b |-> b]

\* What connect_to_hub hands back after sio.connect returned (succeeded) or
\* raised: `return None` in both places.
connect_return(succeeded) == NoneV

FailedToConnect == "Failed to connect to Runtime Hub"

\* The notices of refused connect requests in the stream sys.stdout is.
Refusals ==
    Len(SelectSeq(streams[sys_stdout], LAMBDA text : text = FailedToConnect))

\* A connect_to_hub whose except clause also clears the connected flag.
connect_to_hub_resets ==
    /\ \/ /\ sio_state = "down"
          /\ nConnects < MaxConnects
          /\ nConnects' = nConnects + 1
          /\ sio_state' = "connecting"
          /\ connect_result' = NoOutcome
          /\ UNCHANGED <<streams, connected>>
       \/ /\ sio_state # "down"
          /\ Refusals < MaxNotices
          /\ connect_result' = Returned(connect_return(FALSE))
          /\ print_line(FailedToConnect)
          /\ connected' = FALSE
          /\ UNCHANGED <<sio_state, nConnects>>
    /\ UNCHANGED <<app_id, hub_app_id, channel, dropped, calls, pc, pending, now>>
    /\ UNCHANGED besidesConnect

\* connect_to_hub: sio.connect starts a connection, or raises when the client
\* is already connecting or connected; the error is printed and nothing changes.
connect_to_hub ==
    /\ \/ /\ sio_state = "down"
          /\ nConnects < MaxConnects
          /\ nConnects' = nConnects + 1
          /\ sio_state' = "connecting"
          /\ connect_result' = NoOutcome
          /\ UNCHANGED streams
       \/ /\ sio_state # "down"
          /\ Refusals < MaxNotices
          /\ connect_result' = Returned(connect_return(FALSE))
          /\ print_line(FailedToConnect)
          /\ UNCHANGED <<sio_state, nConnects>>
    /\ UNCHANGED <<connected, app_id, hub_app_id, channel, dropped, calls, pc,
                   pending, now>>
    /\ UNCHANGED besidesConnect

\* The connection attempt fails: no handler runs, sio.connect raises and
\* connect_to_hub returns from its except clause.
connect_error ==
    /\ sio_state = "connecting"
    /\ sio_state' = "down"
    /\ print_line(FailedToConnect)
    /\ connect_result' = Returned(connect_return(FALSE))
    /\ UNCHANGED <<connected, app_id, hub_app_id, nConnects, channel, dropped,
                   calls, pc, pending, now>>
    /\ UNCHANGED besidesConnect

\* A connect handler that sets the flag and requests no registration.
connect_unregistered ==
    /\ sio_state = "connecting"
    /\ sio_state' = "up"
    /\ connected' = TRUE
    /\ print_line("Connected to Runtime Hub")
    /\ connect_result' = Returned(connect_return(TRUE))
    /\ hub_app_id' = Null
    /\ UNCHANGED <<app_id, nConnects, channel, dropped, calls, pc, pending, now>>
    /\ UNCHANGED besidesConnect

\* The connect handler: the transport's connect acknowledgment.
connect ==
    /\ sio_state = "connecting"
    /\ sio_state' = "up"
    /\ connected' = TRUE
    /\ print_line("Connected to Runtime Hub")
    /\ connect_result' = Returned(connect_return(TRUE))
    /\ channel' = Append(channel, [ev |-> "register_app", name |-> "app"])
    /\ hub_app_id' = Null
    /\ UNCHANGED <<app_id, nConnects, dropped, calls, pc, pending, now>>
    /\ UNCHANGED besidesConnect

\* A registered handler that sends the events printed so far.
registered_replays(data) ==
    /\ sio_state = "up"
    /\ hub_app_id = Null
    /\ app_id' = data
    /\ hub_app_id' = data
    /\ print_line("Application registered")
    /\ channel' = channel \o dropped
    /\ UNCHANGED <<sio_state, connected, nConnects, dropped, calls, pc, pending,
                   now>>
    /\ UNCHANGED besidesAgent

\* The registered handler: the hub answers this connection's register_app.
registered(data) ==
    /\ sio_state = "up"
    /\ hub_app_id = Null
    /\ app_id' = data
    /\ hub_app_id' = data
    /\ print_line("Application registered")
    /\ UNCHANGED <<sio_state, connected, nConnects, channel, dropped, calls, pc,
                   pending, now>>
    /\ UNCHANGED besidesAgent

\* The disconnect handler's assignments.
on_disconnect ==
    /\ connected' = FALSE
    /\ print_line("Disconnected from Runtime Hub")
    /\ UNCHANGED app_id

\* The disconnect handler: the transport reports the connection closed.
disconnect ==
    /\ sio_state = "up"
    /\ sio_state' = "down"
    /\ hub_app_id' = Null
    /\ on_disconnect
    /\ UNCHANGED <<nConnects, channel, dropped, calls, pc, pending, now>>
    /\ UNCHANGED besidesAgent

\* disconnect_from_hub: sio.disconnect() when connected, which closes the
\* connection and runs the disconnect handler.
disconnect_from_hub ==
    /\ connected
    /\ sio_state' = "down"
    /\ hub_app_id' = Null
    /\ on_disconnect
    /\ UNCHANGED <<nConnects, channel, dropped, calls, pc, pending, now>>
    /\ UNCHANGED besidesAgent

\* ------------------------------------------------------------ the interceptor
Args == {<<Prim(1)>>, <<BadStrObj>>}

Invocation(fn, start, state, target, observed) ==
    [fn |-> fn, start |-> start, state |-> state, target |-> target,
     observed |-> observed]

\* What the success path hands back to the caller: `return None`.
wrapper_return(result) == NoneV

\* The handlers that catch a target's error: `except Exception`.
caught(e) == e.cls = "Exception"

\* _execute_function and _execute_async_function up to the call of the target:
\* a fresh correlation id, the start time, the parameters, call_enter.  An
\* error of _serialize_parameters leaves before anything is sent.
invoke(fn, args) ==
    /\ Len(calls) < MaxCalls
    /\ \E start_time \in Readings :
          LET call_id == Len(calls) + 1 IN
          /\ now' = start_time
          /\ IF serialize_parameters_raises(args)
             THEN /\ calls' = Append(calls, Invocation(fn, start_time, "done", NoOutcome,
                                                       Raised(StrError)))
                  /\ UNCHANGED <<channel, dropped, pc, streams>>
             ELSE /\ send_execution_event(call_enter(call_id, start_time))
                  /\ calls' = Append(calls, Invocation(fn, start_time, "running",
                                                       NoOutcome, NoOutcome))
                  /\ pc' = "running"
    /\ UNCHANGED <<sio_state, connected, app_id, hub_app_id, nConnects, pending>>

\* The wrapped functions that are executing their target, and the one that was
\* invoked last: on one thread, the one whose target is being executed.
Running == {c \in DOMAIN calls : calls[c].state = "running"}

Innermost == CHOOSE c \in Running : \A d \in Running : d <= c

\* An invocation made from outside any wrapped target.
execute_enter(fn, args) ==
    /\ pc = "idle"
    /\ invoke(fn, args)
    /\ UNCHANGED besidesAgent

\* An invocation of a wrapped function made by the target of a wrapped
\* function that is executing, as each level of a recursive function does.
execute_nested(args) ==
    /\ pc = "running"
    /\ calls[Innermost].fn = "sync"
    /\ invoke("sync", args)
    /\ parent' = [parent EXCEPT ![Len(calls) + 1] = Innermost]
    /\ UNCHANGED <<sandboxRest, hubVars, serVars, connectVars, launcherVars, loopVars,
                   decoVars>>

execute_function(args) == execute_enter("sync", args)

execute_async_function(args) == execute_enter("async", args)

\* The target returns result: the end time, call_exit with success=True and
\* the serialized result, then the return.  An error of _serialize_value is
\* raised inside the try block: the handler reads the clock again, sends
\* call_exit with success=False and re-raises.
target_returns(result) ==
    /\ pc = "running"
    /\ LET call_id == Innermost
           start_time == calls[call_id].start
           sv == serialize_value(result)
       IN  \E end_time \in Readings :
             /\ IF sv.raised
                THEN /\ \E again \in {t \in end_time .. end_time + 1 : t <= MaxTime} :
                          /\ now' = again
                          /\ send_execution_event(
                                 call_exit_error(call_id, again, again - start_time,
                                                 StrError))
                     /\ calls' = [calls EXCEPT ![call_id] =
                            Invocation(@.fn, @.start, "done", Returned(result),
                                       Raised(StrError))]
                ELSE /\ now' = end_time
                     /\ send_execution_event(
                            call_exit_ok(call_id, end_time, end_time - start_time,
                                         sv.val))
                     /\ calls' = [calls EXCEPT ![call_id] =
                            Invocation(@.fn, @.start, "done", Returned(result),
                                       Returned(wrapper_return(result)))]
    /\ pc' = IF Running = {Innermost} THEN "idle" ELSE "running"
    /\ UNCHANGED <<sio_state, connected, app_id, hub_app_id, nConnects, pending>>
    /\ UNCHANGED besidesAgent

\* The target raises e: a caught error gets the end time and call_exit with
\* success=False, error=str(e); either way e goes on to the caller.
target_raises(e) ==
    /\ pc = "running"
    /\ LET call_id == Innermost
           start_time == calls[call_id].start
       IN  /\ IF caught(e)
              THEN \E end_time \in Readings :
                     /\ now' = end_time
                     /\ send_execution_event(
                            call_exit_error(call_id, end_time, end_time - start_time, e))
              ELSE UNCHANGED <<now, channel, dropped, streams>>
           /\ calls' = [calls EXCEPT ![call_id] =
                  Invocation(@.fn, @.start, "done", Raised(e), Raised(e))]
    /\ pc' = IF Running = {Innermost} THEN "idle" ELSE "running"
    /\ UNCHANGED <<sio_state, connected, app_id, hub_app_id, nConnects, pending>>
    /\ UNCHANGED besidesAgent

\* ---------------------------------------------------------- the manual tracker
TrackValues == {NoneV, Prim(1)}
TrackErrors == {NoError, ValueErrorBoom}
TrackTimes == {NoTime}
\* The arguments of the tracker on its own: no return value, a plain one, one
\* that cannot be serialized; no timestamp or one supplied by the caller.
TrackedValues == {NoneV, Prim(1), BadStrObj}
GivenTimes == {NoTime} \cup (0 .. MaxTime)

\* The exit is sent before the enter.
track_events_swapped(enter, exit) == <<exit, enter>>

\* The two events of one track_manual_call, in the order they are sent.
\* What the caller told the tracker about the call: its return value, its
\* error and its timestamps.
Tracked(return_value, error, start_given, end_given) ==
    [k |-> IF error = NoError THEN "return" ELSE "raise", v |-> return_value,
     e |-> error, start_time |-> start_given, end_time |-> end_given]

\* A duration taken the wrong way round.
track_duration_reversed(start_time, end_time) == start_time - end_time

\* duration = (end_time - start_time) * 1000, in the unit of the timestamps.
track_duration(start_time, end_time) == end_time - start_time

track_events(enter, exit) == <<enter, exit>>

\* track_manual_call up to its first event: the default timestamps, the
\* duration, a fresh correlation id, call_enter; then the call_exit is built.
track_manual_call(return_value, error, start_given, end_given) ==
    /\ pc = "idle"
    /\ Len(calls) < MaxCalls
    /\ \E t1 \in Readings : \E t2 \in {t \in t1 .. t1 + 1 : t <= MaxTime} :
          LET start_time == IF start_given = NoTime THEN t1 ELSE start_given
              end_time == IF end_given = NoTime
                          THEN (IF start_given = NoTime THEN t2 ELSE t1)
                          ELSE end_given
              read == IF start_given = NoTime /\ end_given = NoTime THEN t2
                      ELSE IF start_given = NoTime \/ end_given = NoTime THEN t1
                      ELSE now
              call_id == Len(calls) + 1
              keys == (IF return_value # NoneV THEN {"returnValue"} ELSE {})
                        \cup (IF error # NoError THEN {"error", "stackTrace"} ELSE {})
              exit == ExecEvent("call_exit", call_id, end_time,
                                track_duration(start_time, end_time),
                                error = NoError, keys,
                                return_value,
                                IF error = NoError THEN "" ELSE error.msg)
              events == track_events(call_enter(call_id, start_time), exit)
          IN  /\ now' = read
              /\ send_execution_event(events[1])
              /\ pending' = events[2]
              /\ calls' = Append(calls,
                     Invocation("track", start_time, "running",
                                Tracked(return_value, error, start_given, end_given),
                                NoOutcome))
    /\ pc' = "tracking"
    /\ UNCHANGED <<sio_state, connected, app_id, hub_app_id, nConnects>>
    /\ UNCHANGED besidesAgent

\* The rest of track_manual_call: the return value is serialized when it is
\* not None (an error of _serialize_value leaves track_manual_call), then the
\* call_exit is sent.
track_manual_call_exit ==
    /\ pc = "tracking"
    /\ LET call_id == Len(calls)
           sv == serialize_value(pending.returnValue)
       IN  IF "returnValue" \in pending.keys /\ sv.raised
           THEN /\ calls' = [calls EXCEPT ![call_id] =
                       Invocation(@.fn, @.start, "done", @.target, Raised(StrError))]
                /\ UNCHANGED <<channel, dropped, streams>>
           ELSE /\ send_execution_event(
                       [pending EXCEPT !.returnValue =
                           IF "returnValue" \in pending.keys THEN sv.val ELSE NoneV])
                /\ calls' = [calls EXCEPT ![call_id] =
                       Invocation(@.fn, @.start, "done", @.target, Returned(NoneV))]
    /\ pc' = "idle"
    /\ pending' = NoEvent
    /\ UNCHANGED <<sio_state, connected, app_id, hub_app_id, nConnects, now>>
    /\ UNCHANGED besidesAgent

\* define_workflow_nodes
define_workflow_nodes ==
    /\ gate_open
    /\ Cardinality({i \in DOMAIN channel : channel[i].ev = "node_data"}) < MaxNodeData
    /\ channel' = Append(channel, [ev |-> "node_data"])
    /\ UNCHANGED <<sio_state, connected, app_id, hub_app_id, nConnects, dropped,
                   calls, pc, pending, now, streams>>
    /\ UNCHANGED besidesAgent


\* ------------------------------------------------------ the sandboxed executor
\* The behaviours of submitted code: it prints and ends; it raises an ordinary
\* error (1/0); it raises an error that is no Exception (print.__self__ is the
\* builtins module, so `raise print.__self__.SystemExit(3)` runs in the sandbox);
\* it never ends (while True: pass); it ends leaving a binding whose str() raises.
Codes == {"prints", "raises", "raises_base", "loops", "bad_binding"}

ZeroDivision == Err("Exception", "ZeroDivisionError", "division by zero")
SystemExit3 == Err("BaseException", "SystemExit", "3")
TimeoutText == "Code execution timed out after timeout seconds"

WorkerDone == {"done_ok", "done_error"}

\* The result dictionaries of lines 510-515 and 518-523.
success_result(output) ==
    [kind |-> "result", output |-> output, keys |-> {"output", "variables", "exitCode", "success"},
     exitCode |-> 0, success |-> TRUE]

\* A failure result that carries no error trace.
failure_result_untraced(output) ==
    [kind |-> "result", output |-> output, keys |-> {"output", "exitCode", "success"},
     exitCode |-> 1, success |-> FALSE]

failure_result(output) ==
    [kind |-> "result", output |-> output, keys |-> {"output", "error", "exitCode", "success"},
     exitCode |-> 1, success |-> FALSE]

\* An error that leaves _execute_python_code.
escaped(e) == [kind |-> "raised", e |-> e]

\* _execute_python_code up to future.result: sys.stdout is saved and replaced
\* by a new StringIO, the code is submitted to the pool's one worker.
submit_code(c) ==
    /\ exPc = "idle"
    /\ Len(results) < MaxExecs
    /\ code' = c
    /\ old_stdout' = sys_stdout
    /\ sys_stdout' = Len(results) + 1
    /\ worker' = IF c = "loops" THEN "loop_test" ELSE "running"
    /\ exPc' = "result_wait"
    /\ UNCHANGED <<streams, results>>

\* _execute_python_code called on its own.
execute_python_code(c) ==
    /\ submit_code(c)
    /\ UNCHANGED besidesSandbox

\* The sandboxed code calls print, which writes to sys.stdout.
worker_print ==
    /\ worker = "running"
    /\ code = "prints"
    /\ Len(SelectSeq(streams[sys_stdout], LAMBDA text : text = "2")) < MaxPrints
    /\ streams' = [streams EXCEPT ![sys_stdout] = Append(@, "2")]
    /\ UNCHANGED <<sys_stdout, exPc, code, old_stdout, worker, results>>
    /\ UNCHANGED besidesSandbox

\* exec(code, ...) ends, by returning or by raising.
worker_finish ==
    /\ worker = "running"
    /\ worker' = IF code \in {"raises", "raises_base"} THEN "done_error" ELSE "done_ok"
    /\ UNCHANGED <<sys_stdout, streams, exPc, code, old_stdout, results>>
    /\ UNCHANGED besidesSandbox

\* One turn of the loop of code that never ends.
worker_loop ==
    /\ worker \in {"loop_test", "loop_body"}
    /\ worker' = IF worker = "loop_test" THEN "loop_body" ELSE "loop_test"
    /\ UNCHANGED <<sys_stdout, streams, exPc, code, old_stdout, results>>
    /\ UNCHANGED besidesSandbox

\* What the except clause of lines 517-523 does with an error e raised inside
\* the try block: an Exception becomes a failure result, anything else leaves.
except_clause(e) ==
    IF caught(e) THEN failure_result(<<e.msg>>) ELSE escaped(e)

\* future.result returns or raises within the deadline.  After a return the
\* with block is left, sys.stdout is restored, the output and the bindings are
\* collected (str(value) of a binding that json.dumps refuses is not guarded)
\* and the success result is returned.  An error of the code is re-raised by
\* future.result and goes to the except clause past the restore.
future_result ==
    /\ exPc = "result_wait"
    /\ worker \in WorkerDone
    /\ IF worker = "done_ok"
       THEN /\ sys_stdout' = old_stdout
            /\ results' = Append(results,
                  IF code = "bad_binding" THEN except_clause(StrError)
                  ELSE success_result(streams[sys_stdout]))
       ELSE /\ results' = Append(results,
                  except_clause(IF code = "raises" THEN ZeroDivision ELSE SystemExit3))
            /\ UNCHANGED sys_stdout
    /\ exPc' = "idle"
    /\ worker' = "none"
    /\ UNCHANGED <<streams, code, old_stdout>>
    /\ UNCHANGED besidesSandbox

\* The deadline passes first: future.result raises TimeoutError, the handler
\* raises Exception(timed out) inside the with block, whose exit calls
\* executor.shutdown(wait=True).
deadline_expires ==
    /\ exPc = "result_wait"
    /\ worker \notin WorkerDone
    /\ exPc' = "shutdown_wait"
    /\ UNCHANGED <<sys_stdout, streams, code, old_stdout, worker, results>>
    /\ UNCHANGED besidesSandbox

\* shutdown(wait=True) returns once the worker has ended; the timeout error
\* then reaches the except clause.
shutdown_returns ==
    /\ exPc = "shutdown_wait"
    /\ worker \in WorkerDone
    /\ results' = Append(results,
          except_clause(Err("Exception", "Exception", TimeoutText)))
    /\ exPc' = "idle"
    /\ worker' = "none"
    /\ UNCHANGED <<sys_stdout, streams, code, old_stdout>>
    /\ UNCHANGED besidesSandbox

\* ------------------------------------------------------------ the agent's runs
AgentInit ==
    /\ sio_state = "down"
    /\ connected = FALSE
    /\ app_id = Null
    /\ hub_app_id = Null
    /\ nConnects = 0
    /\ channel = << >>
    /\ dropped = << >>
    /\ calls = << >>
    /\ pc = "idle"
    /\ pending = NoEvent
    /\ now = 0

\* ------------------------------------------------------------ hub commands
\* The three node_execution_update messages of a handler.  'running' carries a
\* message that names the command and its argument, 'completed' the result,
\* 'error' the text of the error.
NoResult == [kind |-> "absent"]

node_execution_update(nodeId, status, message, result, error) ==
    [ev |-> "node_execution_update", nodeId |-> nodeId, status |-> status,
     message |-> message, result |-> result, error |-> error]

update_running(nodeId, command, arg) ==
    node_execution_update(nodeId, "running", <<command, arg>>, NoResult, "")

update_completed(nodeId, result) ==
    node_execution_update(nodeId, "completed", << >>, result, "")

update_error(nodeId, error) ==
    node_execution_update(nodeId, "error", << >>, NoResult, error)

function_monitoring_data(callCount) ==
    [ev |-> "function_monitoring_data", callCount |-> callCount]

\* _handle_python_execution up to future.result: the hub's execute_python_code
\* command arrives on the open connection, 'running' is handed to sio.emit and
\* the code is submitted.
handle_python_execution(c) ==
    /\ sio_state = "up"
    /\ hPc = "idle"
    /\ nCmds < MaxCmds
    /\ nCmds' = nCmds + 1
    /\ channel' = Append(channel, update_running(nCmds + 1, "execute", c))
    /\ submit_code(c)
    /\ hPc' = "executing"
    /\ UNCHANGED <<sio_state, connected, app_id, hub_app_id, nConnects, dropped,
                   calls, pc, pending, now>>
    /\ UNCHANGED <<mon, mon_conn, nTicks>>
    /\ UNCHANGED <<serVars, connectVars, launcherVars, loopVars, nestVars, decoVars>>

\* _handle_python_execution after _execute_python_code: 'completed' carries the
\* result.  On a closed connection sio.emit sends nothing, and so does the
\* 'error' update of the except clause; an error that is no Exception passes
\* through the handler.
handle_python_execution_end ==
    /\ hPc = "executing"
    /\ exPc = "idle"
    /\ hPc' = "idle"
    /\ IF Last(results).kind = "result" /\ sio_state = "up"
       THEN channel' = Append(channel, update_completed(nCmds, Last(results)))
       ELSE UNCHANGED channel
    /\ UNCHANGED <<sio_state, connected, app_id, hub_app_id, nConnects, dropped,
                   calls, pc, pending, now>>
    /\ UNCHANGED <<mon, mon_conn, nTicks, nCmds>>
    /\ UNCHANGED <<sandboxVars, serVars, connectVars, launcherVars, loopVars, nestVars, decoVars>>

\* _handle_function_monitoring: 'running', _start_function_monitoring starts
\* the thread emit_monitoring_data, 'completed'.
handle_function_monitoring ==
    /\ sio_state = "up"
    /\ hPc = "idle"
    /\ mon = "none"
    /\ nCmds < MaxCmds
    /\ nCmds' = nCmds + 1
    /\ channel' = channel \o <<update_running(nCmds + 1, "monitor", "f"),
                                update_completed(nCmds + 1, NoneV)>>
    /\ mon' = "sleeping"
    /\ mon_conn' = nConnects
    /\ nTicks' = 0
    /\ UNCHANGED <<sio_state, connected, app_id, hub_app_id, nConnects, dropped,
                   calls, pc, pending, now>>
    /\ UNCHANGED hPc
    /\ UNCHANGED <<sandboxVars, serVars, connectVars, launcherVars, loopVars, nestVars, decoVars>>

\* The modules an import_python_module command names: one that loads, one
\* that cannot be located (ImportError), one whose import or inspection fails
\* otherwise.
Modules == {"loads", "missing", "broken"}

\* The module_info dictionary _import_module builds.
module_info(module_name) ==
    [t |-> "module_info", moduleName |-> module_name, imported |-> TRUE]

\* What the success path of _import_module hands back: `return None`.
import_return(info) == NoneV

\* _import_module: [raised, val, e].  Both except clauses raise a plain
\* Exception whose text names the failure.
import_module(module_name) ==
    CASE module_name = "loads" ->
            [raised |-> FALSE, val |-> import_return(module_info(module_name)),
             e |-> NoError]
      [] module_name = "missing" ->
            [raised |-> TRUE, val |-> NoneV,
             e |-> Err("Exception", "Exception", "Failed to import module")]
      [] OTHER ->
            [raised |-> TRUE, val |-> NoneV,
             e |-> Err("Exception", "Exception", "Error importing module")]

\* _handle_module_import: 'running', _import_module, then 'completed' with its
\* result or, from the except clause, 'error' with the text of its error.
handle_module_import(module_name) ==
    /\ sio_state = "up"
    /\ hPc = "idle"
    /\ nCmds < MaxCmds
    /\ nCmds' = nCmds + 1
    /\ LET import_result == import_module(module_name) IN
       channel' = channel \o
           <<update_running(nCmds + 1, "import", module_name),
             IF import_result.raised
             THEN update_error(nCmds + 1, import_result.e.msg)
             ELSE update_completed(nCmds + 1, import_result.val)>>
    /\ UNCHANGED <<sio_state, connected, app_id, hub_app_id, nConnects, dropped,
                   calls, pc, pending, now>>
    /\ UNCHANGED <<hPc, mon, mon_conn, nTicks>>
    /\ UNCHANGED <<sandboxVars, serVars, connectVars, launcherVars, loopVars, nestVars, decoVars>>

\* A monitoring thread that clears the application id when it stops.
monitor_wakes_clears ==
    /\ mon = "sleeping"
    /\ nTicks < MaxTicks
    /\ mon' = IF connected THEN "checked" ELSE "stopped"
    /\ app_id' = IF connected THEN app_id ELSE Null
    /\ UNCHANGED <<hPc, mon_conn, nTicks, nCmds>>
    /\ UNCHANGED <<sio_state, connected, hub_app_id, nConnects, channel, dropped,
                   calls, pc, pending, now>>
    /\ UNCHANGED <<sandboxVars, serVars, connectVars, launcherVars, loopVars, nestVars, decoVars>>

\* emit_monitoring_data: time.sleep(2) returns and self.connected is tested.
monitor_wakes ==
    /\ mon = "sleeping"
    /\ nTicks < MaxTicks
    /\ mon' = IF connected THEN "checked" ELSE "stopped"
    /\ UNCHANGED <<hPc, mon_conn, nTicks, nCmds>>
    /\ UNCHANGED <<agentVars, sandboxVars, serVars, connectVars, launcherVars, loopVars, nestVars, decoVars>>

\* emit_monitoring_data: callCount is incremented and the data handed to
\* sio.emit.  On a closed connection nothing is sent, and the call either
\* returns or raises, which ends the thread.
monitor_emits ==
    /\ mon = "checked"
    /\ nTicks' = nTicks + 1
    /\ IF sio_state = "up"
       THEN /\ channel' = Append(channel, function_monitoring_data(nTicks + 1))
            /\ mon' = "sleeping"
       ELSE /\ UNCHANGED channel
            /\ mon' \in {"sleeping", "crashed"}
    /\ UNCHANGED <<sio_state, connected, app_id, hub_app_id, nConnects, dropped,
                   calls, pc, pending, now>>
    /\ UNCHANGED <<hPc, mon_conn, nCmds>>
    /\ UNCHANGED <<sandboxVars, serVars, connectVars, launcherVars, loopVars, nestVars, decoVars>>

\* ----------------------------------------------------- the serializer, called
\* A call of _serialize_value with the argument `value`.
call_serialize_value ==
    /\ serialized = NotCalled
    /\ serialized' = serialize_value(value)
    /\ UNCHANGED value
    /\ UNCHANGED <<agentVars, sandboxVars, hubVars, connectVars, launcherVars, loopVars, nestVars, decoVars>>

SandboxInit ==
    /\ sys_stdout = 0
    /\ streams = [k \in 0 .. MaxExecs |-> << >>]
    /\ exPc = "idle"
    /\ code = "none"
    /\ old_stdout = 0
    /\ worker = "none"
    /\ results = << >>

\* ------------------------------------------------- the module-level decorator
\* The functions a module decorates: plain or coroutine functions that return
\* a value or raise.
Funcs ==
    {[t |-> "function", kind |-> k, outcome |-> o] :
        k \in {"sync", "async"},
        o \in {Returned(v) : v \in Values} \cup {Raised(e) : e \in Errors}}

FuncNames == {NoneV, Str(1)}

TypeErrorNotCallable == Err("Exception", "TypeError", "'NoneType' object is not callable")

\* What monitor_function(func_name) gives (return None at line 350, where the
\* decorator was to be returned).
monitor_function_return(decorator) == NoneV

\* What the decorator gives for a function (return None at lines 346 and 348).
decorator_return(bound) == NoneV

\* No decoration is under way: no agent, one function.
DecoStart ==
    /\ global_agent = NoneV
    /\ func_name = NoneV
    /\ func = [t |-> "function", kind |-> "sync", outcome |-> Returned(Prim(1))]
    /\ dPc = "start"
    /\ made = NoneV
    /\ decorated = NoOutcome

\* A module is about to decorate any of the functions, under any name, with
\* or without a global agent.
DecoInputs ==
    /\ global_agent \in {NoneV, Str(0)}
    /\ func_name \in FuncNames
    /\ func \in Funcs
    /\ dPc = "start"
    /\ made = NoneV
    /\ decorated = NoOutcome

\* The call monitor_function(func_name) of the line @monitor_function(...).
module_monitor_function ==
    /\ dPc = "start"
    /\ made' = monitor_function_return("decorator")
    /\ dPc' = "made"
    /\ UNCHANGED <<global_agent, func_name, func, decorated>>
    /\ UNCHANGED <<agentVars, sandboxVars, hubVars, serVars, connectVars, launcherVars,
                   loopVars, nestVars>>

\* The result of that call is applied to the function: None is not callable;
\* the decorator would give what it returns.
apply_decorator ==
    /\ dPc = "made"
    /\ decorated' = IF made = NoneV THEN Raised(TypeErrorNotCallable)
                    ELSE Returned(decorator_return(func))
    /\ dPc' = "decorated"
    /\ UNCHANGED <<global_agent, func_name, func, made>>
    /\ UNCHANGED <<agentVars, sandboxVars, hubVars, serVars, connectVars, launcherVars,
                   loopVars, nestVars>>

\* ------------------------------------------------------------ the event loop
LoopInit ==
    /\ tState = [c \in 1 .. MaxCalls |-> "not_started"]
    /\ other_log = << >>

\* An invocation of _execute_async_function is under way.
InAsyncCall == pc = "running" /\ calls[Len(calls)].fn = "async"

\* Where the event loop's current task is: outside the wrapper ("idle"),
\* between call_enter and the start of the target ("entered"), in the target
\* ("running", "suspended"), or between the target's completion and the
\* call_exit ("completed").
position ==
    IF ~InAsyncCall THEN "idle"
    ELSE IF tState[Len(calls)] = "not_started" THEN "entered"
    ELSE tState[Len(calls)]

\* A wrapper with an await of its own between call_enter and the target.
yields_after_enter(at) == at \in {"idle", "entered", "suspended"}

\* The places at which the task has given control to the event loop.
\* _execute_async_function holds one await, on the target (line 177);
\* _serialize_parameters, _send_execution_event and _serialize_value are
\* plain calls.
yields(at) == at \in {"idle", "suspended"}

\* `await func(*args, **kwargs)`: the coroutine is created and run at once.
target_starts ==
    /\ InAsyncCall
    /\ tState[Len(calls)] = "not_started"
    /\ tState' = [tState EXCEPT ![Len(calls)] = "running"]
    /\ UNCHANGED other_log
    /\ UNCHANGED <<agentVars, sandboxVars, hubVars, serVars, connectVars, launcherVars, nestVars, decoVars>>

\* The target awaits something that is not ready.
target_suspends ==
    /\ InAsyncCall
    /\ tState[Len(calls)] = "running"
    /\ tState' = [tState EXCEPT ![Len(calls)] = "suspended"]
    /\ UNCHANGED other_log
    /\ UNCHANGED <<agentVars, sandboxVars, hubVars, serVars, connectVars, launcherVars, nestVars, decoVars>>

\* The event loop resumes the target.
target_resumes ==
    /\ InAsyncCall
    /\ tState[Len(calls)] = "suspended"
    /\ tState' = [tState EXCEPT ![Len(calls)] = "running"]
    /\ UNCHANGED other_log
    /\ UNCHANGED <<agentVars, sandboxVars, hubVars, serVars, connectVars, launcherVars, nestVars, decoVars>>

\* The target's coroutine ends, by returning or by raising: control is back
\* in _execute_async_function at line 177.
target_completes ==
    /\ InAsyncCall
    /\ tState[Len(calls)] = "running"
    /\ tState' = [tState EXCEPT ![Len(calls)] = "completed"]
    /\ UNCHANGED other_log
    /\ UNCHANGED <<agentVars, sandboxVars, hubVars, serVars, connectVars, launcherVars, nestVars, decoVars>>

\* The event loop runs another task for one turn, which it can do only where
\* the current task has given control to it.
other_task_runs ==
    /\ yields(position)
    /\ Len(other_log) < MaxOther
    /\ other_log' = Append(other_log, position)
    /\ UNCHANGED tState
    /\ UNCHANGED <<agentVars, sandboxVars, hubVars, serVars, connectVars, launcherVars, nestVars, decoVars>>

\* The result or the error of a completed target reaches the wrapper.
Completed == InAsyncCall /\ tState[Len(calls)] = "completed"

\* The launcher process has not been started.
NoExit == -1

LauncherInit ==
    /\ lPc = "main"
    /\ monitor = NoneV
    /\ running = FALSE
    /\ success = NoneV
    /\ exit_code = NoExit
    /\ nSignals = 0

\* Python's truth test of a value.
Truthy(v) == v # NoneV /\ v # BoolV(FALSE)

\* What init_monitor gives its caller (return None at line 336; the agent it
\* built is kept in _global_agent only).
init_monitor_return(agent) == NoneV

\* What AgentLauncher.start gives main (return None at lines 55, 61 and 65).
start_return(started) == NoneV

\* main up to the call of init_monitor: without runtime_monitor.py in the
\* working directory it exits with 1; otherwise start installs the signal
\* handlers and calls init_monitor, which builds the agent.
main(exists) ==
    /\ lPc = "main"
    /\ IF exists
       THEN /\ lPc' = "init_monitor"
            /\ UNCHANGED exit_code
       ELSE /\ lPc' = "exited"
            /\ exit_code' = 1
    /\ UNCHANGED <<monitor, running, success, nSignals>>
    /\ UNCHANGED <<agentVars, sandboxVars, hubVars, serVars, connectVars, loopVars, nestVars, decoVars>>

\* init_monitor calls connect_to_hub on the agent it built.
init_monitor ==
    /\ lPc = "init_monitor"
    /\ nConnects = 0
    /\ connect_to_hub

\* connect_to_hub has returned inside init_monitor, init_monitor returns and
\* start stores what it gave in self.monitor.
init_monitor_returns ==
    /\ lPc = "init_monitor"
    /\ connect_result # NoOutcome
    /\ monitor' = init_monitor_return("agent")
    /\ lPc' = "connect"
    /\ UNCHANGED <<running, success, exit_code, nSignals>>
    /\ UNCHANGED <<agentVars, sandboxVars, hubVars, serVars, connectVars, loopVars, nestVars, decoVars>>

\* `if self.monitor.connect_to_hub():` (line 40).  On None the attribute
\* lookup raises AttributeError, which `except Exception` (line 59) turns into
\* a return; on an agent the test is made on what connect_to_hub returns, and
\* a false value takes the else branch (lines 52-55).  In both cases the
\* finally clause calls stop, which does nothing because running is False.
\* Only a true value sets running and enters the main loop.
start_connect ==
    /\ lPc = "connect"
    /\ IF monitor # NoneV /\ Truthy(connect_return(TRUE))
       THEN /\ running' = TRUE
            /\ lPc' = "running"
            /\ UNCHANGED success
       ELSE /\ success' = start_return(FALSE)
            /\ lPc' = "returned"
            /\ UNCHANGED running
    /\ UNCHANGED <<monitor, exit_code, nSignals>>
    /\ UNCHANGED <<agentVars, sandboxVars, hubVars, serVars, connectVars, loopVars, nestVars, decoVars>>

\* signal_handler, installed for SIGINT and SIGTERM: it calls stop, which
\* clears running when it is set (the main loop then ends and the agent is
\* disconnected) and does nothing otherwise.
signal_handler ==
    /\ lPc \in {"init_monitor", "connect", "running", "returned"}
    /\ nSignals < MaxSignals
    /\ nSignals' = nSignals + 1
    /\ IF running
       THEN /\ running' = FALSE
            /\ lPc' = "stopping"
       ELSE UNCHANGED <<running, lPc>>
    /\ UNCHANGED <<monitor, success, exit_code>>
    /\ UNCHANGED <<agentVars, sandboxVars, hubVars, serVars, connectVars, loopVars, nestVars, decoVars>>

\* main after start has returned: sys.exit(0) if success else sys.exit(1).
main_exit ==
    /\ lPc = "returned"
    /\ exit_code' = IF Truthy(success) THEN 0 ELSE 1
    /\ lPc' = "exited"
    /\ UNCHANGED <<monitor, running, success, nSignals>>
    /\ UNCHANGED <<agentVars, sandboxVars, hubVars, serVars, connectVars, loopVars, nestVars, decoVars>>

\* The launcher process is alive: the agent's handlers can run.
Alive == lPc \notin {"main", "exited"}

HubInit ==
    /\ hPc = "idle"
    /\ mon = "none"
    /\ mon_conn = 0
    /\ nTicks = 0
    /\ nCmds = 0

Init ==
    /\ AgentInit /\ SandboxInit /\ HubInit
    /\ value = NoneV /\ serialized = NotCalled
    /\ connect_result = NoOutcome
    /\ LauncherInit
    /\ LoopInit
    /\ parent = [c \in 1 .. MaxCalls |-> 0]
    /\ DecoStart

\* The serializer is about to be called with any of its arguments.
SerInit ==
    /\ AgentInit /\ SandboxInit /\ HubInit
    /\ value \in SerInputs
    /\ serialized = NotCalled
    /\ connect_result = NoOutcome
    /\ LauncherInit
    /\ LoopInit
    /\ parent = [c \in 1 .. MaxCalls |-> 0]
    /\ DecoStart

AgentNext ==
    \/ connect_to_hub
    \/ connect_error
    \/ connect
    \/ \E data \in AppIds : registered(data)
    \/ disconnect
    \/ disconnect_from_hub
    \/ \E args \in Args : execute_function(args)
    \/ \E args \in Args : execute_async_function(args)
    \/ \E result \in Values : target_returns(result)
    \/ \E e \in Errors : target_raises(e)
    \/ \E rv \in TrackValues, err \in TrackErrors, st \in TrackTimes, et \in TrackTimes :
          track_manual_call(rv, err, st, et)
    \/ track_manual_call_exit
    \/ define_workflow_nodes

SandboxNext ==
    \/ \E c \in Codes : execute_python_code(c)
    \/ worker_print
    \/ worker_finish
    \/ worker_loop
    \/ future_result
    \/ deadline_expires
    \/ shutdown_returns

\* The connection lifecycle.
LifecycleNext ==
    \/ connect_to_hub
    \/ connect_error
    \/ connect
    \/ \E data \in AppIds : registered(data)
    \/ disconnect
    \/ disconnect_from_hub

TrackerNext ==
    \/ LifecycleNext
    \/ \E rv \in TrackedValues, err \in TrackErrors, st \in GivenTimes, et \in GivenTimes :
          track_manual_call(rv, err, st, et)
    \/ track_manual_call_exit

HubNext ==
    \/ LifecycleNext
    \/ \E c \in Codes : handle_python_execution(c)
    \/ handle_python_execution_end
    \/ handle_function_monitoring
    \/ \E module_name \in Modules : handle_module_import(module_name)
    \/ monitor_wakes
    \/ monitor_emits
    \/ worker_print
    \/ worker_finish
    \/ worker_loop
    \/ future_result
    \/ deadline_expires
    \/ shutdown_returns

vars == <<agentVars, sandboxVars, hubVars, serVars, connectVars, launcherVars, loopVars, nestVars, decoVars>>

\* The agent's lifecycle, the interceptor and the manual tracker.
Next == AgentNext

Spec == Init /\ [][Next]_vars

\* The text in a stream that the sandboxed code did not write.
HostText(stream) == SelectSeq(stream, LAMBDA text : text # "2")

\* The lines of the agent's own prints held by the streams 1 .. k.
RECURSIVE HostLines(_)
HostLines(k) == IF k = 0 THEN 0 ELSE Len(HostText(streams[k])) + HostLines(k - 1)

\* What the agent has been asked to do so far, and what it has printed into
\* the streams of executions.
Activity == Len(calls) + Len(results) + nCmds + nConnects + HostLines(MaxExecs)

\* The whole agent: every thread of it takes its steps, as long as the
\* activity stays within its bound.
Within(step) == step /\ Activity' <= MaxActivity

WholeNext ==
    \/ Within(connect_to_hub)
    \/ Within(connect_error)
    \/ Within(connect)
    \/ \E data \in AppIds : Within(registered(data))
    \/ Within(disconnect)
    \/ Within(disconnect_from_hub)
    \/ \E args \in Args : Within(execute_function(args))
    \/ \E args \in Args : Within(execute_async_function(args))
    \/ \E result \in Values : Within(target_returns(result))
    \/ \E e \in Errors : Within(target_raises(e))
    \/ \E rv \in TrackValues, err \in TrackErrors, st \in TrackTimes, et \in TrackTimes :
          Within(track_manual_call(rv, err, st, et))
    \/ Within(track_manual_call_exit)
    \/ Within(define_workflow_nodes)
    \/ \E c \in Codes : Within(handle_python_execution(c))
    \/ Within(handle_python_execution_end)
    \/ Within(handle_function_monitoring)
    \/ \E module_name \in Modules : Within(handle_module_import(module_name))
    \/ Within(monitor_wakes)
    \/ Within(monitor_emits)
    \/ Within(worker_print)
    \/ Within(worker_finish)
    \/ Within(worker_loop)
    \/ Within(future_result)
    \/ Within(deadline_expires)
    \/ Within(shutdown_returns)

WholeSpec == Init /\ [][WholeNext]_vars

\* The connection lifecycle, the handlers of the hub's commands and the
\* monitoring thread.
HubSpec == Init /\ [][HubNext]_vars

\* The connection lifecycle and the manual tracker, with every kind of
\* argument.
TrackerSpec == Init /\ [][TrackerNext]_vars

\* _serialize_value as a function of its argument.
SerNext == call_serialize_value

SerSpec == SerInit /\ [][SerNext]_vars

\* The sandboxed executor and its worker.
\* A module that decorates one function with the module-level decorator.
DecoInit ==
    /\ AgentInit /\ SandboxInit /\ HubInit
    /\ value = NoneV /\ serialized = NotCalled
    /\ connect_result = NoOutcome
    /\ LauncherInit
    /\ LoopInit
    /\ parent = [c \in 1 .. MaxCalls |-> 0]
    /\ DecoInputs

DecoNext ==
    \/ module_monitor_function
    \/ apply_decorator

DecoSpec == DecoInit /\ [][DecoNext]_vars

\* Wrapped functions whose targets invoke wrapped functions, on one thread;
\* the connection is set up before the first invocation.
NestNext ==
    \/ calls = << >> /\ connect_to_hub
    \/ calls = << >> /\ connect
    \/ \E data \in AppIds : calls = << >> /\ registered(data)
    \/ \E args \in Args : execute_function(args)
    \/ \E args \in Args : execute_nested(args)
    \/ \E result \in Values : target_returns(result)
    \/ \E e \in Errors : target_raises(e)

NestSpec == Init /\ [][NestNext]_vars

\* Coroutines wrapped by the interceptor on an event loop that has another
\* task, and the connection's lifecycle.
AsyncNext ==
    \/ LifecycleNext
    \/ \E args \in Args : execute_async_function(args)
    \/ target_starts
    \/ target_suspends
    \/ target_resumes
    \/ target_completes
    \/ \E result \in Values : Completed /\ target_returns(result)
    \/ \E e \in Errors : Completed /\ target_raises(e)
    \/ other_task_runs

AsyncSpec == Init /\ [][AsyncNext]_vars

\* The launcher process, the hub it connects to and the import commands the
\* hub sends to it.
LauncherNext ==
    \/ \E exists \in BOOLEAN : main(exists)
    \/ init_monitor
    \/ Alive /\ connect_error
    \/ Alive /\ connect
    \/ \E data \in AppIds : Alive /\ registered(data)
    \/ Alive /\ disconnect
    \/ \E module_name \in Modules : Alive /\ handle_module_import(module_name)
    \/ init_monitor_returns
    \/ start_connect
    \/ signal_handler
    \/ main_exit

LauncherSpec == Init /\ [][LauncherNext]_vars

SandboxSpec == Init /\ [][SandboxNext]_vars

\* The threads of the sandbox are scheduled: the worker runs while it can, the
\* executing thread goes on when it can, and the deadline passes.
SandboxFairness ==
    /\ WF_vars(worker_finish)
    /\ WF_vars(worker_loop)
    /\ WF_vars(future_result)
    /\ WF_vars(deadline_expires)
    /\ WF_vars(shutdown_returns)

FairSandboxSpec == SandboxSpec /\ SandboxFairness

\* ------------------------------------------------------------------ properties
IsEvent(m, type, c) ==
    m.ev = "execution_data" /\ m.type = type /\ m.callId = c

\* The places of the events of one kind and correlation id in a log.
Places(log, type, c) == {i \in DOMAIN log : IsEvent(log[i], type, c)}

\* The events of one kind and correlation id a call produced, sent or dropped.
Produced(type, c) ==
    {channel[i] : i \in Places(channel, type, c)}
        \cup {dropped[i] : i \in Places(dropped, type, c)}

NProduced(type, c) ==
    Cardinality(Places(channel, type, c)) + Cardinality(Places(dropped, type, c))

\* Registered: connected, and the hub has assigned an id on this connection.
Registered == connected /\ hub_app_id # Null

Wrapped(c) == calls[c].fn \in {"sync", "async"}

Ended(c) == calls[c].state = "done"

\* C1: every call_enter published by an invocation of a wrapped function that
\* has ended, by the target's return or by an error the wrapper catches, is
\* followed on the channel by exactly one call_exit of the same correlation id.
C1_EnterHasOneLaterExit ==
    \A c \in DOMAIN calls :
        (/\ Wrapped(c)
         /\ Ended(c)
         /\ \/ calls[c].target.k = "return"
            \/ calls[c].target.k = "raise" /\ caught(calls[c].target.e))
        => \A i \in Places(channel, "call_enter", c) :
              Cardinality({j \in Places(channel, "call_exit", c) : j > i}) = 1

\* C2: an execution_data or node_data message is appended to the channel only
\* by a step taken in the Registered state.
C2_PublishedOnlyWhenRegistered ==
    [][(/\ Len(channel') = Len(channel) + 1
        /\ Last(channel').ev \in {"execution_data", "node_data"})
       => Registered]_vars

\* C3: whenever the agent is not connected, its application id is null.
C3_DisconnectedHasNoAppId == ~connected => app_id = Null

\* C4: an execution of code that never ends leads to the executor's return of
\* the failure result that holds the timeout description.
C4_InfiniteLoopTimesOut ==
    (exPc = "result_wait" /\ code = "loops")
        ~> (/\ exPc = "idle"
            /\ results # << >>
            /\ Last(results) = failure_result(<<TimeoutText>>))

\* C5: after every return of the sandboxed executor, sys.stdout is the stream
\* that was installed when the call began.
C5_StdoutRestored ==
    (exPc = "idle" /\ results # << >>) => sys_stdout = old_stdout

\* C6: every ended invocation of a wrapped function whose target raised has
\* produced a call_exit with success=false and a non-empty error description
\* for its correlation id, and its caller observed the error the target raised.
C6_RaiseEmitsFailedExit ==
    \A c \in DOMAIN calls :
        (Wrapped(c) /\ Ended(c) /\ calls[c].target.k = "raise")
        => /\ \E m \in Produced("call_exit", c) : ~m.success /\ m.error # ""
           /\ calls[c].observed = calls[c].target

\* C7: the caller of an ended invocation of a wrapped function whose target
\* returned a value observes the return of that value.
C7_WrapperTransparent ==
    \A c \in DOMAIN calls :
        (Wrapped(c) /\ Ended(c) /\ calls[c].target.k = "return")
        => calls[c].observed = calls[c].target

\* C8: every call of the sandboxed executor gives its caller a result object;
\* no error leaves it.
C8_ExecutorNeverRaises ==
    \A i \in DOMAIN results : results[i].kind = "result"

\* C9: on the channel, the call_enter of a correlation id comes before the
\* call_exit of that id: no call_exit precedes a call_enter of its id.
C9_EnterBeforeExit ==
    \A i, j \in DOMAIN channel :
        \A c \in DOMAIN calls :
            (IsEvent(channel[i], "call_enter", c) /\ IsEvent(channel[j], "call_exit", c))
            => i < j

\* Both events of an interceptor's invocation and both events of a manual
\* tracker's call are on the channel.
C9_Witness ==
    /\ \E c \in DOMAIN calls :
          /\ Wrapped(c)
          /\ Places(channel, "call_enter", c) # {}
          /\ Places(channel, "call_exit", c) # {}
    /\ \E c \in DOMAIN calls :
          /\ calls[c].fn = "track"
          /\ Places(channel, "call_enter", c) # {}
          /\ Places(channel, "call_exit", c) # {}

\* C10: every ended invocation of a wrapped synchronous function whose target
\* returned has produced exactly one call_enter and exactly one call_exit for
\* its correlation id, the call_exit with success=true and a timestamp not
\* before the call_enter's.
C10_NormalReturnOnePair ==
    \A c \in DOMAIN calls :
        (calls[c].fn = "sync" /\ Ended(c) /\ calls[c].target.k = "return")
        => /\ NProduced("call_enter", c) = 1
           /\ NProduced("call_exit", c) = 1
           /\ \A x \in Produced("call_exit", c) :
                 /\ x.success
                 /\ \A n \in Produced("call_enter", c) : x.timestamp >= n.timestamp

\* The kinds of telemetry the agent publishes to the hub.
Telemetry ==
    {"execution_data", "node_data", "node_execution_update",
     "function_monitoring_data"}

\* The messages a step hands to sio.emit.
Sent == {channel'[i] : i \in (DOMAIN channel') \ (DOMAIN channel)}

\* C11: every publication of telemetry of any kind (execution_data, node_data,
\* node_execution_update, function_monitoring_data) happens in a state where
\* the agent is connected and has an application id.
C11_TelemetryGuarded ==
    [][\A m \in Sent : m.ev \in Telemetry => gate_open]_vars

OwnError(c) ==
    calls[c].observed.k = "raise" =>
        /\ calls[c].fn # "track"
        /\ calls[c].observed = calls[c].target

\* C13: a step taken while the agent is not registered publishes no telemetry,
\* and no call made through the interceptor or the manual tracker ends in an
\* error of the telemetry.
C13_UnregisteredEmitIsSilent ==
    [][~Registered =>
          /\ \A m \in Sent : m.ev \notin Telemetry
          /\ \A c \in DOMAIN calls' : OwnError(c)']_vars

\* The state of the connection lifecycle, as the agent's fields give it.
LifecycleState ==
    IF sio_state = "connecting" THEN "Connecting"
    ELSE IF ~connected THEN "Disconnected"
    ELSE IF app_id = Null THEN "Connected"
    ELSE "Registered"

LifecycleMoves ==
    {<<"Disconnected", "Connecting">>, <<"Connecting", "Connected">>,
     <<"Connected", "Registered">>}
        \cup {<<st, "Disconnected">> : st \in {"Connecting", "Connected", "Registered"}}

\* C14: the lifecycle starts Disconnected with a null application id and moves
\* only Disconnected -> Connecting -> Connected -> Registered, and from any
\* state to Disconnected; Registered is entered from Connected only.
C14_LifecycleOrder ==
    /\ (nConnects = 0 => LifecycleState = "Disconnected" /\ app_id = Null)
    /\ [][LifecycleState' # LifecycleState =>
             <<LifecycleState, LifecycleState'>> \in LifecycleMoves]_vars

\* The transport's connect acknowledgment.
ConnectAck == sio_state = "connecting" /\ sio_state' = "up"

\* C15: a connect acknowledgment sets the agent connected and appends exactly
\* one register_app carrying the application's name, and no other step
\* publishes a register_app.
C15_RegistersOnConnectAck ==
    [][/\ ConnectAck =>
            /\ connected'
            /\ channel' = Append(channel, [ev |-> "register_app", name |-> "app"])
       /\ (\E m \in Sent : m.ev = "register_app") => ConnectAck]_vars

\* The agent has connected a second time and its last message is the
\* registration request of that connection.
C15_Witness ==
    /\ nConnects = 2
    /\ connected
    /\ Last(channel).ev = "register_app"
    /\ Cardinality({i \in DOMAIN channel : channel[i].ev = "register_app"}) = 2

\* C16: the monitoring thread publishes function_monitoring_data only while no
\* disconnect has been reported since it started: when it publishes, the
\* connection is still the one it was started on.
C16_MonitorStopsAtDisconnect ==
    [][(\E m \in Sent : m.ev = "function_monitoring_data")
          => nConnects = mon_conn]_vars

Called == serialized # NotCalled

Min10(n) == IF n < 10 THEN n ELSE 10

\* C17: a call of the serializer never raises, whatever its argument: objects
\* whose length or text cannot be computed, alone or inside a container,
\* included.
C17_SerializerTotal == Called => ~serialized.raised

\* C18: for a list or dict of n entries the serializer returns a list or dict
\* of exactly min(n, 10) entries, the serializations of the first min(n, 10).
C18_FirstTenEntries ==
    (Called /\ value.t \in {"list", "dict"}) =>
        LET n == Min10(Len(value.items)) IN
        /\ ~serialized.raised
        /\ serialized.val.t = value.t
        /\ Len(serialized.val.items) = n
        /\ \A i \in 1 .. n :
              IF value.t = "list"
              THEN serialized.val.items[i] = serialize_value(value.items[i]).val
              ELSE serialized.val.items[i][2] = serialize_value(value.items[i][2]).val

\* C19: the serialization of a dict keeps the first 10 pairs in their order,
\* drops the others, and every key of the result is a string: the source's key
\* when that is a string, its text otherwise.
C19_KeysAreStrings ==
    (Called /\ value.t = "dict" /\ ~serialized.raised /\ serialized.val.t = "dict") =>
        /\ Len(serialized.val.items) = Min10(Len(value.items))
        /\ \A i \in DOMAIN serialized.val.items :
              /\ serialized.val.items[i][1].t = "str"
              /\ value.items[i][1].t = "str" =>
                    serialized.val.items[i][1] = value.items[i][1]
              /\ serialized.val.items[i][2] = serialize_value(value.items[i][2]).val

\* C20: every call of the manual tracker that has ended produced exactly one
\* call_enter and one call_exit with its correlation id, the call_exit with
\* success=true exactly when no error was supplied, and returned to its caller
\* without raising.
C20_TrackerOnePairNoRaise ==
    \A c \in DOMAIN calls :
        (calls[c].fn = "track" /\ Ended(c))
        => /\ NProduced("call_enter", c) = 1
           /\ NProduced("call_exit", c) = 1
           /\ \A x \in Produced("call_exit", c) :
                 x.success <=> calls[c].target.k = "return"
           /\ calls[c].observed = Returned(NoneV)

\* The call_exit events of a call, sent or printed.
Exits(c) == Produced("call_exit", c)

\* C21 as stated: every call_exit, of the interceptor or of the manual
\* tracker, carries a returnValue and nothing else when success=true, and an
\* error with its stackTrace and nothing else when success=false.
C21_ExactlyOnePayload ==
    \A c \in DOMAIN calls : \A x \in Exits(c) :
        x.keys = IF x.success THEN {"returnValue"} ELSE {"error", "stackTrace"}

\* C21 amended: a call_exit carries error and stackTrace together, exactly
\* when success=false.  The interceptor's call_exit carries a returnValue
\* exactly when success=true; the tracker's carries one exactly when a return
\* value other than None was supplied, whatever the error, so it can carry
\* both payloads or neither.
C21_PayloadFollowsArguments ==
    \A c \in DOMAIN calls : \A x \in Exits(c) :
        /\ "error" \in x.keys <=> ~x.success
        /\ "stackTrace" \in x.keys <=> ~x.success
        /\ x.keys \subseteq {"returnValue", "error", "stackTrace"}
        /\ "returnValue" \in x.keys <=>
              IF Wrapped(c) THEN x.success ELSE calls[c].target.v # NoneV

\* The tracker has produced a call_exit with neither payload and one with
\* both, and the interceptor a failed one.
C21_Witness ==
    /\ \E c \in DOMAIN calls : ~Wrapped(c) /\ \E x \in Exits(c) : x.keys = {}
    /\ \E c \in DOMAIN calls :
          \/ ~Wrapped(c) /\ \E x \in Exits(c) : x.keys = {"returnValue", "error", "stackTrace"}
          \/ Wrapped(c) /\ \E x \in Exits(c) : ~x.success

\* The call_enter events of a call, sent or printed.
Enters(c) == Produced("call_enter", c)

TrackedCall(c) == calls[c].fn = "track"

\* C22 as stated: in every pair the tracker produces, the call_exit's
\* duration is its timestamp minus the call_enter's, and is not negative,
\* whichever timestamps were supplied.
C22_DurationNeverNegative ==
    \A c \in DOMAIN calls : TrackedCall(c) =>
        \A n \in Enters(c) : \A x \in Exits(c) :
            /\ x.duration = x.timestamp - n.timestamp
            /\ x.duration >= 0

\* C22 amended: a supplied timestamp is used as it is and an omitted one is a
\* reading of the clock, the start read before the end; the duration is the
\* call_exit's timestamp minus the call_enter's; with both omitted it lies
\* between 0 and one step of the clock, and it is negative only when a
\* supplied timestamp puts the end before the start.
C22_DurationIsEndMinusStart ==
    \A c \in DOMAIN calls : TrackedCall(c) =>
        \A n \in Enters(c) : \A x \in Exits(c) :
            LET given == calls[c].target IN
            /\ x.duration = x.timestamp - n.timestamp
            /\ given.start_time # NoTime => n.timestamp = given.start_time
            /\ given.end_time # NoTime => x.timestamp = given.end_time
            /\ given.start_time = NoTime => n.timestamp \in 0 .. now
            /\ given.end_time = NoTime => x.timestamp \in 0 .. now
            /\ (given.start_time = NoTime /\ given.end_time = NoTime)
                  => x.duration \in {0, 1}
            /\ x.duration < 0 =>
                  (given.start_time # NoTime \/ given.end_time # NoTime)

\* The tracker has produced a pair with a negative duration, the end supplied
\* and earlier than the start.
C22_Witness ==
    \E c \in DOMAIN calls :
        /\ TrackedCall(c)
        /\ calls[c].target.end_time # NoTime
        /\ \E x \in Exits(c) : x.duration < 0

\* The updates of one status the agent has published for a node.
Updates(nodeId, status) ==
    {channel[i] : i \in {j \in DOMAIN channel :
        /\ channel[j].ev = "node_execution_update"
        /\ channel[j].nodeId = nodeId
        /\ channel[j].status = status}}

\* The import_python_module commands handled, by the module they name.
Imports(module_name) ==
    {n \in 1 .. nCmds : \E u \in Updates(n, "running") :
        u.message = <<"import", module_name>>}

\* C24: an import command for a module that cannot be located is answered by
\* an 'error' update with the import's error text, and one for a module that
\* loads by a 'completed' update whose result has imported = true.
C24_ImportOutcomeReported ==
    /\ \A n \in Imports("missing") :
          /\ Updates(n, "completed") = {}
          /\ \E u \in Updates(n, "error") : u.error = "Failed to import module"
    /\ \A n \in Imports("loads") :
          /\ Updates(n, "error") = {}
          /\ \E u \in Updates(n, "completed") :
                u.result.t = "module_info" /\ u.result.imported

\* The steps of the connection lifecycle's handlers: the connect
\* acknowledgment, the hub's registered notification, the disconnect.
Disconnection == sio_state = "up" /\ sio_state' = "down"

RegisteredNotice == sio_state = "up" /\ hub_app_id = Null /\ hub_app_id' # Null

\* C23: the connected flag changes only in the connect and disconnect
\* handlers and the application id only in the registered handler; every step
\* of the interceptor, the tracker, define_workflow_nodes, a sandboxed
\* execution, a module import or the monitoring thread leaves both unchanged.
C23_OnlyLifecycleWrites ==
    [][/\ connected' # connected =>
            IF connected' THEN ConnectAck ELSE Disconnection
       /\ app_id' # app_id => RegisteredNotice
       /\ ~(ConnectAck \/ Disconnection \/ RegisteredNotice) =>
            UNCHANGED <<connected, app_id>>]_vars

\* The agent is registered, a tracked or wrapped call has ended and the
\* monitoring thread has published.
C23_Witness ==
    /\ connected
    /\ app_id # Null
    /\ \E c \in DOMAIN calls : Ended(c)
    /\ nTicks > 0

\* sio.connect raised: the connection attempt failed.
ConnectFailure == sio_state = "connecting" /\ sio_state' = "down"

\* C25: connect_to_hub gives its caller True when the transport connection
\* succeeds and False when it fails, and a failed connect leaves the agent
\* disconnected with no connection attempt under way.
C25_ConnectOutcomeSurfaced ==
    [][/\ ConnectAck => connect_result' = Returned(BoolV(TRUE))
       /\ ConnectFailure =>
            /\ connect_result' = Returned(BoolV(FALSE))
            /\ ~connected'
            /\ sio_state' = "down"]_vars

\* future.result returns: the sandboxed code ended within the deadline
\* without raising.
CodeCompletes == exPc = "result_wait" /\ worker = "done_ok" /\ exPc' = "idle"

\* C26: when the sandboxed code completes within the deadline without
\* raising, the executor returns a result with success true, exitCode 0 and
\* an output that is exactly the text the code wrote to standard output.
C26_CompletedCodeSucceeds ==
    [][CodeCompletes =>
         LET r == results'[Len(results')]
         IN  /\ r.kind = "result"
             /\ r.success
             /\ r.exitCode = 0
             /\ r.output = streams[sys_stdout]]_vars

\* The launcher's connection attempt succeeded: the connect handler ran.
LauncherConnected == \E i \in DOMAIN channel : channel[i].ev = "register_app"

\* The launcher connected, ran, was sent a termination signal and
\* disconnected.
GracefulShutdown == LauncherConnected /\ nSignals > 0 /\ sio_state = "down"

\* C27: the launcher exits with 0 after a graceful shutdown and with 1 only
\* when runtime_monitor.py is missing or the connection attempt failed.
C27_LauncherExitCode ==
    lPc = "exited" =>
        /\ exit_code = 0 <=> GracefulShutdown
        /\ exit_code = 1 <=> (nConnects = 0 \/ ~LauncherConnected)

\* C28: every call_exit on the channel is preceded on the channel by a
\* call_enter of the same correlation id.
C28_ExitHasEarlierEnter ==
    \A c \in DOMAIN calls :
        \A j \in Places(channel, "call_exit", c) :
            \E i \in Places(channel, "call_enter", c) : i < j

\* The target of invocation c ended with an error that is not an ordinary
\* one: an interrupt or, for a coroutine, its cancellation.
Interrupted(c) ==
    /\ Wrapped(c)
    /\ Ended(c)
    /\ calls[c].target.k = "raise"
    /\ calls[c].target.e.cls = "BaseException"

\* C29: an invocation of a wrapped function, synchronous or asynchronous,
\* whose target was interrupted or cancelled has produced a call_exit with
\* success=false for its correlation id, and its caller observed that failure.
C29_InterruptEmitsFailedExit ==
    \A c \in DOMAIN calls :
        Interrupted(c)
        => /\ \E m \in Produced("call_exit", c) : ~m.success
           /\ calls[c].observed = calls[c].target

\* C30: a failure of the telemetry path does not reach the caller of a wrapped
\* function and does not duplicate events: every ended invocation called its
\* target, its wrapper returned when its target returned, and it produced at
\* most one call_exit.
C30_TelemetryFailureIsolated ==
    \A c \in DOMAIN calls :
        (Wrapped(c) /\ Ended(c))
        => /\ calls[c].target # NoOutcome
           /\ calls[c].target.k = "return" => calls[c].observed.k = "return"
           /\ NProduced("call_exit", c) <= 1

\* C31: of the two events of an ended call of the manual tracker, either both
\* are on the channel or neither is.
C31_TrackerBothOrNeither ==
    \A c \in DOMAIN calls :
        (TrackedCall(c) /\ Ended(c))
        => (Places(channel, "call_enter", c) # {}
              <=> Places(channel, "call_exit", c) # {})

Executing == exPc # "idle"

\* C33: the output of a successful execution holds only text the sandboxed
\* code wrote, and no text that another thread of the process prints while an
\* execution is in progress goes to a stream other than the original one.
C33_OutputOnlySandboxText ==
    [][/\ \A i \in DOMAIN results' :
            (results'[i].kind = "result" /\ results'[i].success)
            => HostText(results'[i].output) = << >>
       /\ Executing =>
            \A k \in 1 .. MaxExecs : HostText(streams'[k]) = HostText(streams[k])]_vars

\* Where on the channel the updates of one status for a node are.
UpdatePlaces(nodeId, status) ==
    {j \in DOMAIN channel :
        /\ channel[j].ev = "node_execution_update"
        /\ channel[j].nodeId = nodeId
        /\ channel[j].status = status}

\* The handler of command n has ended.
Handled(n) == n < nCmds \/ hPc = "idle"

\* C34: for every command whose handler has ended, the channel holds one
\* 'running' update for its node followed by exactly one terminal update,
\* 'completed' or 'error'.
C34_RunningThenOneTerminal ==
    \A n \in 1 .. nCmds :
        Handled(n)
        => LET terminal == UpdatePlaces(n, "completed") \cup UpdatePlaces(n, "error")
           IN  /\ Cardinality(UpdatePlaces(n, "running")) = 1
               /\ Cardinality(terminal) = 1
               /\ \A i \in UpdatePlaces(n, "running") : \A j \in terminal : i < j

\* The results the executor has returned to its callers.
ReturnedResults == {i \in DOMAIN results : results[i].kind = "result"}

\* C35: in every result the executor returns, success goes with exitCode 0
\* and failure with exitCode 1, the error trace is present exactly in a
\* failure and the bindings exactly in a success.
C35_ResultShape ==
    \A i \in ReturnedResults :
        LET r == results[i] IN
        /\ r.success <=> r.exitCode = 0
        /\ ~r.success <=> r.exitCode = 1
        /\ "error" \in r.keys <=> ~r.success
        /\ "variables" \in r.keys <=> r.success

\* The executor has returned a success and a failure.
C35_Witness ==
    /\ \E i \in ReturnedResults : results[i].success
    /\ \E i \in ReturnedResults : ~results[i].success

\* The events of the interceptor in the order of their emission: with the
\* connection settled before the first invocation, all of them are on the
\* channel or all of them are in the printed log.
Emitted == IF gate_open THEN channel ELSE dropped

\* Invocation b was made by the target of invocation a.
InvokedDuring(a, b) == parent[b] = a

\* C36: the invocations have distinct correlation ids, and when b was invoked
\* during a and both have ended, the events call_enter(a), call_enter(b),
\* call_exit(b), call_exit(a) were emitted, once each and in that order.
C36_NestedBracketed ==
    /\ \A c \in DOMAIN calls :
          /\ \A m \in Enters(c) : m.callId = c
          /\ NProduced("call_enter", c) <= 1
    /\ \A a, b \in DOMAIN calls :
          (InvokedDuring(a, b) /\ Ended(a) /\ Ended(b))
          => \E i, j, k, l \in DOMAIN Emitted :
                /\ i < j /\ j < k /\ k < l
                /\ Places(Emitted, "call_enter", a) = {i}
                /\ Places(Emitted, "call_enter", b) = {j}
                /\ Places(Emitted, "call_exit", b) = {k}
                /\ Places(Emitted, "call_exit", a) = {l}

\* C37: with no global agent, the name under @monitor_function(...) is bound
\* to the decorated function itself.
C37_UndecoratedWithoutAgent ==
    (dPc = "decorated" /\ global_agent = NoneV) => decorated = Returned(func)

\* connect_to_hub is called on a connection that is up, seen where its notice
\* lands in a stream that is kept: sio.connect raises and the except clause
\* prints.
RedundantConnect ==
    /\ sio_state = "up"
    /\ \E k \in 1 .. MaxExecs : streams'[k] = Append(streams[k], FailedToConnect)

\* C38: a connect request made while the agent is connected or registered
\* leaves the connected flag, the application id and the channel as they
\* were - no second register_app - and returns to its caller.
C38_RedundantConnectInert ==
    [][RedundantConnect =>
         /\ UNCHANGED <<connected, app_id, channel, sio_state>>
         /\ connect_result'.k = "return"]_vars

\* The only connection attempt succeeded and the agent is registered, and a
\* later connect request has printed its notice.
C38_Witness ==
    /\ nConnects = 1
    /\ sio_state = "up"
    /\ connected
    /\ app_id # Null
    /\ \E k \in 1 .. MaxExecs : \E i \in DOMAIN streams[k] : streams[k][i] = FailedToConnect
====
